---- MODULE Spec2Model ----
(***************************************************************************)
(* Model of the online multi-target tracker of                            *)
(* flydra-feature-detector/analysis/kalmanize.py: TrackedObject (one       *)
(* constant-velocity Kalman filter per object) and Tracker (greedy data    *)
(* association, birth, death, finalize-and-persist).                       *)
(*                                                                         *)
(* Numbers.  The script computes in double precision.  Here every real     *)
(* quantity is a fixed-point integer:                                      *)
(*   positions              in units of 1/PosScale metres,                 *)
(*   velocities             in units of 1/PosScale metres per second,      *)
(*   covariance entries     in units of 1/CovScale,                        *)
(*   Kalman gains           in units of 1/GainScale,                       *)
(* and every division rounds to the nearest unit (RDiv).  dt is the        *)
(* rational DtNum/DtDen.                                                   *)
(*                                                                         *)
(* The 4x4 covariance P is kept as the six entries that the block          *)
(* structure of F, Q, H, R and initV can make non-zero:                    *)
(*   p00 p11 (position), p02 p13 (position-velocity), p22 p33 (velocity).  *)
(***************************************************************************)
EXTENDS Integers, Sequences, FiniteSets, TLC

(* ---------------------------- bounds ----------------------------------- *)
\* largest frame number the driver hands to handle_frame_data
MaxFrame == 3
\* largest number of handle_frame_data calls in one run
MaxCalls == 3

(* ------------------------ fixed-point scales --------------------------- *)
PosScale == 1000000
CovScale == 1000000
GainScale == 1000

\* round-to-nearest division, d > 0
RDiv(n, d) == (n + d \div 2) \div d

RECURSIVE ISqrtBetween(_, _, _)
ISqrtBetween(s, lo, hi) ==
    \* largest r in lo..hi with r*r <= s (lo*lo <= s < (hi+1)^2)
    IF lo = hi THEN lo
    ELSE LET mid == (lo + hi + 1) \div 2
         IN  IF mid * mid <= s THEN ISqrtBetween(s, mid, hi)
                               ELSE ISqrtBetween(s, lo, mid - 1)

\* np.sqrt on a non-negative fixed-point value: floor of the square root
Sqrt(s) == ISqrtBetween(s, 0, 46340)

\* the float nan, as it appears in (np.nan, np.nan)
nan == -2000000000

(* --------------------- TrackedObject._init_kfilt ----------------------- *)
\* self._dt, in units of 1/DtDen second
VARIABLE _dt

\* the dt the thresholds were tuned for (0.015 s) is DtNum / DtDen seconds
DtNum == 15
DtDen == 1000

covar_scale == 10
\* motion_noise_covariance = covar_scale * [[T33,0,T22,0],[0,T33,0,T22],
\*                                          [T22,0,T,0],[0,T22,0,T]]
motion_noise_covariance ==
    [q00 |-> RDiv(covar_scale * _dt * _dt * _dt,
                  3 * ((DtDen * DtDen * DtDen) \div CovScale)),
     q02 |-> RDiv(covar_scale * _dt * _dt * (CovScale \div (DtDen * DtDen)), 2),
     q22 |-> RDiv(covar_scale * _dt * CovScale, DtDen)]

\* observation_noise_covariance = 0.01 * eye(2)
observation_noise_covariance == CovScale \div 100

\* initV = 0.1 * eye(4)
initV == [p00 |-> CovScale \div 10, p11 |-> CovScale \div 10,
          p02 |-> 0, p13 |-> 0,
          p22 |-> CovScale \div 10, p33 |-> CovScale \div 10]

\* 0.005 m
data_association_distance_threshold_meters == (5 * PosScale) \div 1000

max_covar_factor == 7500
\* max_covar_factor * T**3 / 3.0
max_position_covarance ==
    (max_covar_factor * _dt * _dt * _dt)
        \div (3 * ((DtDen * DtDen * DtDen) \div CovScale))

covar_factor == 7111
\* covar_factor * T**3 / 3.0
median_covar_scalar_threshold ==
    (covar_factor * _dt * _dt * _dt)
        \div (3 * ((DtDen * DtDen * DtDen) \div CovScale))

\* 0.002 m
minimum_excursion_distance == (2 * PosScale) \div 1000

(* ------------------------ adskalman.KalmanFilter ----------------------- *)
\* KalmanFilter(F, H, Q, R, initx, initV): a posteriori estimate of step k-1
KalmanFilter(initx, initP) == [xhat_k1 |-> initx, P_k1 |-> initP]

\* xhatminus = F xhat_k1, Pminus = F P_k1 F' + Q; the initial step takes
\* the initial estimate as the prior
step1__calculate_a_priori(kf, isinitial) ==
    LET x == kf.xhat_k1
        P == kf.P_k1
        Q == motion_noise_covariance
        dtb(b) == RDiv(_dt * b, DtDen)
        dt2c(c) == RDiv(_dt * _dt * c, DtDen * DtDen)
    IN  IF isinitial
        THEN [xhatminus |-> x, Pminus |-> P]
        ELSE [xhatminus |-> << x[1] + RDiv(_dt * x[3], DtDen),
                               x[2] + RDiv(_dt * x[4], DtDen),
                               x[3], x[4] >>,
              Pminus |-> [p00 |-> P.p00 + 2 * dtb(P.p02) + dt2c(P.p22) + Q.q00,
                          p11 |-> P.p11 + 2 * dtb(P.p13) + dt2c(P.p33) + Q.q00,
                          p02 |-> P.p02 + dtb(P.p22) + Q.q02,
                          p13 |-> P.p13 + dtb(P.p33) + Q.q02,
                          p22 |-> P.p22 + Q.q22,
                          p33 |-> P.p33 + Q.q22]]

\* y is None or contains a nan
MissingData(y) == y = <<>> \/ y[1] = nan \/ y[2] = nan

\* K = Pminus H' inv(H Pminus H' + R); xhat = xhatminus + K (y - H xhatminus);
\* P = (I - K H) Pminus.  Without an observation the posterior is the prior.
step2__calculate_a_posteri(kf, xhatminus, Pminus, y) ==
    IF MissingData(y)
    THEN [kfilt |-> [xhat_k1 |-> xhatminus, P_k1 |-> Pminus],
          xfilt |-> xhatminus, Vfilt |-> Pminus]
    ELSE LET R == observation_noise_covariance
             K0x == RDiv(Pminus.p00 * GainScale, Pminus.p00 + R)
             K0y == RDiv(Pminus.p11 * GainScale, Pminus.p11 + R)
             K1x == RDiv(Pminus.p02 * GainScale, Pminus.p00 + R)
             K1y == RDiv(Pminus.p13 * GainScale, Pminus.p11 + R)
             rx == y[1] - xhatminus[1]
             ry == y[2] - xhatminus[2]
             xhat == << xhatminus[1] + RDiv(K0x * rx, GainScale),
                        xhatminus[2] + RDiv(K0y * ry, GainScale),
                        xhatminus[3] + RDiv(K1x * rx, GainScale),
                        xhatminus[4] + RDiv(K1y * ry, GainScale) >>
             P == [p00 |-> Pminus.p00 - RDiv(K0x * Pminus.p00, GainScale),
                   p11 |-> Pminus.p11 - RDiv(K0y * Pminus.p11, GainScale),
                   p02 |-> Pminus.p02 - RDiv(K0x * Pminus.p02, GainScale),
                   p13 |-> Pminus.p13 - RDiv(K0y * Pminus.p13, GainScale),
                   p22 |-> Pminus.p22 - RDiv(K1x * Pminus.p02, GainScale),
                   p33 |-> Pminus.p33 - RDiv(K1y * Pminus.p13, GainScale)]
         IN  [kfilt |-> [xhat_k1 |-> xhat, P_k1 |-> P],
              xfilt |-> xhat, Vfilt |-> P]

\* the a posteriori step applied to a prior
StepFromPrior(kf, prior, y) ==
    step2__calculate_a_posteri(kf, prior.xhatminus, prior.Pminus, y)

\* KalmanFilter.step: a priori step followed by the a posteriori step
step(kf, y, isinitial) ==
    StepFromPrior(kf, step1__calculate_a_priori(kf, isinitial), y)

(* ------------------------------ TrackedObject -------------------------- *)
\* An observation of the frame's list: the tuple (x, y) in xy, and in i the
\* position of that tuple object in the list given to handle_frame_data
\* (Python lists hold references; i stands for the identity of the tuple).
Obs(i, xy) == [i |-> i, xy |-> xy]

\* the object handle_birth leaves, s being the result of the initial step:
\* every history list starts with one record
BornObject(obj_id, frame, observation, s) ==
    [obj_id |-> obj_id,
     _kfilt |-> s.kfilt,
     last_frame |-> frame,
     state_estimates |-> << s.xfilt >>,
     covariance_estimates |-> << s.Vfilt >>,
     observations |-> << observation >>,
     frames |-> << frame >>,
     _last_observation_frame |-> frame]

handle_birth_AtOrigin(obj_id, frame, observation) ==
    BornObject(obj_id, frame, observation,
               step(KalmanFilter(<<0, 0, 0, 0>>, initV), observation, TRUE))

\* handle_birth: _init_kfilt (initx = [x, y, 0, 0], initV), then one initial
\* Kalman step with the birth observation
handle_birth(obj_id, frame, observation) ==
    BornObject(obj_id, frame, observation,
               step(KalmanFilter(<<observation[1], observation[2], 0, 0>>, initV),
                    observation, TRUE))

\* position_coveriance_scalar = sqrt(P[0,0]**2 + P[1,1]**2)
position_coveriance_scalar(P) == Sqrt(P.p00 * P.p00 + P.p11 * P.p11)

CheckedCovariance_First(obj) == obj.covariance_estimates[1]

\* the covariance _check_is_done looks at: covariance_estimates[-1]
CheckedCovariance(obj) == obj.covariance_estimates[Len(obj.covariance_estimates)]

\* _check_is_done: the last recorded covariance exceeds the kill threshold
_check_is_done(obj) ==
    position_coveriance_scalar(CheckedCovariance(obj)) > max_position_covarance

\* the four appends of one record, s being the result of the Kalman step
Recorded(obj, s, observation, frame_number) ==
    [obj EXCEPT !._kfilt = s.kfilt,
                !.state_estimates = Append(@, s.xfilt),
                !.covariance_estimates = Append(@, s.Vfilt),
                !.observations = Append(@, observation),
                !.frames = Append(@, frame_number)]

\* range(self.last_frame+1, frame), evaluated once when the loop starts
MissingFrameNumbers(obj, frame) ==
    [k \in 1..(IF frame - obj.last_frame - 1 > 0 THEN frame - obj.last_frame - 1 ELSE 0)
        |-> obj.last_frame + k]

\* one pass of the body of the missing-frame loop, before the termination
\* check: a Kalman step without observation, one record, last_frame = frame
MissingFrameStep(obj, frame, missing_frame_number) ==
    [Recorded(obj, step(obj._kfilt, <<>>, FALSE), <<nan, nan>>,
              missing_frame_number)
        EXCEPT !.last_frame = frame]

RECURSIVE MissingFrameLoop(_, _, _, _)

\* the termination check that ends a pass of the missing-frame loop
MissingFrameCheck(o1, frame, missing, k) ==
    IF _check_is_done(o1)
    THEN [obj |-> o1, is_done |-> TRUE]
    ELSE MissingFrameLoop(o1, frame, missing, k + 1)

\* the missing-frame loop: returns early when the termination check fires
MissingFrameLoop(obj, frame, missing, k) ==
    IF k > Len(missing)
    THEN [obj |-> obj, is_done |-> FALSE]
    ELSE MissingFrameCheck(MissingFrameStep(obj, frame, missing[k]),
                           frame, missing, k)

\* predicted = C . state_prior
Predicted(state_prior) == << state_prior[1], state_prior[2] >>

\* (predicted - observation)**2 summed
SquaredDistance(p, xy) ==
    (p[1] - xy[1]) * (p[1] - xy[1]) + (p[2] - xy[2]) * (p[2] - xy[2])

WithinGate_Box(predicted, xy) ==
    /\ (predicted[1] - xy[1]) * (predicted[1] - xy[1])
          <= data_association_distance_threshold_meters
              * data_association_distance_threshold_meters
    /\ (predicted[2] - xy[2]) * (predicted[2] - xy[2])
          <= data_association_distance_threshold_meters
              * data_association_distance_threshold_meters

\* distance <= data_association_distance_threshold_meters
WithinGate(predicted, xy) ==
    SquaredDistance(predicted, xy)
        <= data_association_distance_threshold_meters
            * data_association_distance_threshold_meters

\* "use this observation": a posteriori step and one record for this frame
UseObservation(obj, frame, prior, observation) ==
    [Recorded(obj, StepFromPrior(obj._kfilt, prior, observation), observation,
              frame)
        EXCEPT !._last_observation_frame = frame]

RECURSIVE AssociationLoop(_, _, _, _, _, _, _, _)

AssociationStep_LastFit(obj, frame, prior, predicted, orig_observations, k, unclaimed_observations, claimed) ==
    IF /\ WithinGate(predicted, orig_observations[k].xy)
       /\ \A j \in (k + 1)..Len(orig_observations) :
              ~ WithinGate(predicted, orig_observations[j].xy)
    THEN [obj |-> UseObservation(obj, frame, prior, orig_observations[k].xy),
          unclaimed_observations |-> unclaimed_observations,
          claimed |-> Append(claimed, orig_observations[k].i)]
    ELSE AssociationLoop(obj, frame, prior, predicted, orig_observations, k + 1,
             Append(unclaimed_observations, orig_observations[k]), claimed)

AssociationStep_NoBreak(obj, frame, prior, predicted, orig_observations, k, unclaimed_observations, claimed) ==
    IF WithinGate(predicted, orig_observations[k].xy)
    THEN AssociationLoop(
             UseObservation(obj, frame, prior, orig_observations[k].xy),
             frame, prior, predicted, orig_observations, k + 1,
             unclaimed_observations, Append(claimed, orig_observations[k].i))
    ELSE AssociationLoop(obj, frame, prior, predicted, orig_observations, k + 1,
             Append(unclaimed_observations, orig_observations[k]), claimed)

AssociationStep_KeepClaimed(obj, frame, prior, predicted, orig_observations, k, unclaimed_observations, claimed) ==
    IF WithinGate(predicted, orig_observations[k].xy)
    THEN [obj |-> UseObservation(obj, frame, prior, orig_observations[k].xy),
          unclaimed_observations |->
              Append(unclaimed_observations, orig_observations[k]),
          claimed |-> Append(claimed, orig_observations[k].i)]
    ELSE AssociationLoop(obj, frame, prior, predicted, orig_observations, k + 1,
             Append(unclaimed_observations, orig_observations[k]), claimed)

\* the body of "for observation in orig_observations" for the k-th
\* observation: within the gate it is used and the loop breaks, otherwise it
\* is appended to unclaimed_observations and the loop goes on
AssociationStep(obj, frame, prior, predicted, orig_observations, k, unclaimed_observations, claimed) ==
    IF WithinGate(predicted, orig_observations[k].xy)
    THEN [obj |-> UseObservation(obj, frame, prior, orig_observations[k].xy),
          unclaimed_observations |-> unclaimed_observations,
          claimed |-> Append(claimed, orig_observations[k].i)]
    ELSE AssociationLoop(obj, frame, prior, predicted, orig_observations, k + 1,
             Append(unclaimed_observations, orig_observations[k]), claimed)

\* for observation in orig_observations: the observations scanned before the
\* one used are in unclaimed_observations, those after it are not looked at.
\* claimed logs the list positions (Obs.i) of the observations used.
AssociationLoop(obj, frame, prior, predicted, orig_observations, k, unclaimed_observations, claimed) ==
    IF k > Len(orig_observations)
    THEN [obj |-> obj, unclaimed_observations |-> unclaimed_observations,
          claimed |-> claimed]
    ELSE AssociationStep(obj, frame, prior, predicted, orig_observations, k,
                         unclaimed_observations, claimed)

\* return unclaimed_observations, is_done after the association loop (a)
AssociationReturn(a, predicted) ==
    [obj |-> a.obj,
     unclaimed_observations |-> a.unclaimed_observations,
     is_done |-> _check_is_done(a.obj),
     reached |-> TRUE, predicted |-> predicted, claimed |-> a.claimed]

\* the association step, given the prior estimate for this frame
Association(obj, frame, orig_observations, prior) ==
    AssociationReturn(
        AssociationLoop(obj, frame, prior, Predicted(prior.xhatminus),
                        orig_observations, 1, <<>>, <<>>),
        Predicted(prior.xhatminus))

AfterMissingFrames_DropList(r, frame, orig_observations) ==
    IF r.is_done
    THEN [obj |-> r.obj, unclaimed_observations |-> <<>>,
          is_done |-> TRUE, reached |-> FALSE, predicted |-> <<>>,
          claimed |-> <<>>]
    ELSE Association(r.obj, frame, orig_observations,
                     step1__calculate_a_priori(r.obj._kfilt, FALSE))

\* what follows the missing-frame loop (r): the early return, or the prior
\* estimate for this frame and the association
AfterMissingFrames(r, frame, orig_observations) ==
    IF r.is_done
    THEN [obj |-> r.obj, unclaimed_observations |-> orig_observations,
          is_done |-> TRUE, reached |-> FALSE, predicted |-> <<>>,
          claimed |-> <<>>]
    ELSE Association(r.obj, frame, orig_observations,
                     step1__calculate_a_priori(r.obj._kfilt, FALSE))

\* data_association_and_kalman_update.  Returns the object after the call,
\* the list handed on (unclaimed_observations) and is_done; reached, predicted
\* and claimed log what the call did.
data_association_and_kalman_update(obj, frame, orig_observations) ==
    AfterMissingFrames(
        MissingFrameLoop(obj, frame, MissingFrameNumbers(obj, frame), 1),
        frame, orig_observations)

(* --------------------------------- Tracker ----------------------------- *)
VARIABLES
    _objects,       \* self._objects: the live TrackedObjects, in list order
    next_obj_id,    \* self.next_obj_id
    _results_fd,    \* the lines written to the results file, in order
    pc,             \* "running", "closed" (close returned), "raised"
    ncalls,         \* number of handle_frame_data calls made
    last_call,      \* log of the last handle_frame_data call
    finalized,      \* log of every _save_data call, in order
    inputs,         \* log of the calls made on the Tracker, in order
    main            \* the locals of main: df, row position, frame, observations

vars == << _dt, _objects, next_obj_id, _results_fd, pc, ncalls, last_call,
          finalized, inputs, main >>

\* meters_to_pixels: the 3x3 homogeneous transform given to the Tracker
Ainv == << <<1000, 0, 320>>, <<0, 1000, 240>>, <<0, 0, 1>> >>

\* pixel positions are kept in units of 1/PixScale pixel
PixScale == 1000

\* row of Ainv . (x, y, 1)
Homog(row, state) ==
    Ainv[row][1] * state[1] + Ainv[row][2] * state[2] + Ainv[row][3] * PosScale

\* xy_pixels = (Ainv . (x, y, 1))[:2] / (Ainv . (x, y, 1))[2]
ToPixels(state) ==
    << RDiv(Homog(1, state), Homog(3, state) \div PixScale),
       RDiv(Homog(2, state), Homog(3, state) \div PixScale) >>

Header_ColumnsOnly == << [kind |-> "columns"] >>

\* the two header lines written by Tracker.__init__
Header == << [kind |-> "comment", dt |-> <<_dt, DtDen>>],
             [kind |-> "columns"] >>

SeqMax(q) == CHOOSE m \in {q[k] : k \in 1..Len(q)} : \A k \in 1..Len(q) : q[k] <= m
SeqMin(q) == CHOOSE m \in {q[k] : k \in 1..Len(q)} : \A k \in 1..Len(q) : m <= q[k]

\* np.max(a, axis) on a scalar a: the second positional argument of np.max is
\* the axis, not a second operand; reducing a 0-d value returns the value
np_max(a, axis) == a

\* the position of q[k] in the sorted order of q (ties in list order)
SortedRank(q, k) ==
    Cardinality({j \in 1..Len(q) : q[j] < q[k] \/ (q[j] = q[k] /\ j < k)}) + 1

\* q sorted in non-decreasing order
Sorted(q) == [r \in 1..Len(q) |-> q[CHOOSE k \in 1..Len(q) : SortedRank(q, k) = r]]

\* the middle element, or the mean of the two middle elements, of a sorted q
Middle(srt) ==
    IF Len(srt) % 2 = 1 THEN srt[(Len(srt) + 1) \div 2]
    ELSE (srt[Len(srt) \div 2] + srt[Len(srt) \div 2 + 1]) \div 2

\* np.median
np_median(q) == Middle(Sorted(q))

InvalidIdxs_FromLastObservation(obj) ==
    {k \in 1..Len(obj.frames) : obj.frames[k] >= obj._last_observation_frame}

\* the frames after the last observation frame (invalid_cond), as indices
InvalidIdxs(obj) ==
    {k \in 1..Len(obj.frames) : obj.frames[k] > obj._last_observation_frame}

\* last_idx: the number of records kept
TrimLength(obj) ==
    IF InvalidIdxs(obj) = {} THEN Len(obj.frames)
    ELSE (CHOOSE k \in InvalidIdxs(obj) : \A j \in InvalidIdxs(obj) : k <= j) - 1

Cut_KeepObservations(obj, n) ==
    [obj EXCEPT !.frames = SubSeq(@, 1, n),
                !.state_estimates = SubSeq(@, 1, n),
                !.covariance_estimates = SubSeq(@, 1, n)]

\* the four lists cut to their first n records
Cut(obj, n) ==
    [obj EXCEPT !.frames = SubSeq(@, 1, n),
                !.state_estimates = SubSeq(@, 1, n),
                !.covariance_estimates = SubSeq(@, 1, n),
                !.observations = SubSeq(@, 1, n)]

\* obj.frames = obj.frames[:last_idx], and so for the other three lists
Trimmed(obj) == Cut(obj, TrimLength(obj))

x_meters(obj) == [k \in 1..Len(obj.state_estimates) |-> obj.state_estimates[k][1]]

y_meters(obj) == [k \in 1..Len(obj.state_estimates) |-> obj.state_estimates[k][2]]

\* x_excursion, y_excursion and excursion_distance of a trimmed object
excursion_distance(obj) ==
    np_max(SeqMax(x_meters(obj)) - SeqMin(x_meters(obj)),
           SeqMax(y_meters(obj)) - SeqMin(y_meters(obj)))

\* median of the per-record uncertainty scalar of a trimmed object
median_covar_scalar(obj) ==
    np_median([k \in 1..Len(obj.covariance_estimates) |->
                   position_coveriance_scalar(obj.covariance_estimates[k])])

\* the lines written for an accepted trajectory
Rows(obj) ==
    [k \in 1..Len(obj.frames) |->
        [kind |-> "record",
         frame |-> obj.frames[k],
         obj_id |-> obj.obj_id,
         state |-> obj.state_estimates[k],
         covar |-> << obj.covariance_estimates[k].p00, obj.covariance_estimates[k].p11,
                      obj.covariance_estimates[k].p22, obj.covariance_estimates[k].p33 >>,
         obs |-> obj.observations[k],
         xy_pix |-> ToPixels(obj.state_estimates[k])]]

Gates_QualityOnly(t) ==
    IF Len(t.frames) = 0
    THEN [obj |-> t, raised |-> TRUE, accepted |-> FALSE, rows |-> <<>>]
    ELSE IF ~ (median_covar_scalar(t) <= median_covar_scalar_threshold)
    THEN [obj |-> t, raised |-> FALSE, accepted |-> FALSE, rows |-> <<>>]
    ELSE [obj |-> t, raised |-> FALSE, accepted |-> TRUE, rows |-> Rows(t)]

Gates_WriteRejected(t) ==
    IF Len(t.frames) = 0
    THEN [obj |-> t, raised |-> TRUE, accepted |-> FALSE, rows |-> <<>>]
    ELSE IF ~ (median_covar_scalar(t) <= median_covar_scalar_threshold)
    THEN [obj |-> t, raised |-> FALSE, accepted |-> FALSE, rows |-> <<>>]
    ELSE [obj |-> t, raised |-> FALSE,
          accepted |-> excursion_distance(t) > minimum_excursion_distance,
          rows |-> Rows(t)]

\* _save_data after the trimming (t): the two gates, then the write.  An
\* empty trimmed history makes the array indexing raise.
Gates(t) ==
    IF Len(t.frames) = 0
    THEN [obj |-> t, raised |-> TRUE, accepted |-> FALSE, rows |-> <<>>]
    ELSE IF ~ (median_covar_scalar(t) <= median_covar_scalar_threshold)
    THEN [obj |-> t, raised |-> FALSE, accepted |-> FALSE, rows |-> <<>>]
    ELSE IF ~ (excursion_distance(t) > minimum_excursion_distance)
    THEN [obj |-> t, raised |-> FALSE, accepted |-> FALSE, rows |-> <<>>]
    ELSE [obj |-> t, raised |-> FALSE, accepted |-> TRUE, rows |-> Rows(t)]

\* _save_data: trim, gates, write
_save_data(obj) == Gates(Trimmed(obj))

\* one entry of the finalized log
Finalization(before, s, via, call) ==
    [obj_id |-> before.obj_id, untrimmed |-> before, obj |-> s.obj,
     accepted |-> s.accepted, raised |-> s.raised, via |-> via, call |-> call]

\* one entry of last_call.trace: what one pass of the object loop of
\* handle_frame_data did
TraceEntry(before, handed, r) ==
    [pre |-> before, post |-> r.obj, handed |-> handed,
     unclaimed |-> r.unclaimed_observations, is_done |-> r.is_done,
     reached |-> r.reached, predicted |-> r.predicted, claimed |-> r.claimed]

\* the state of the object loop of handle_frame_data: what is left of
\* self._objects, living_objects, the list handed on, the lines written and
\* the log entries of this call
LoopState(objects, living_objects, unclaimed_observations, rows, fin, trace, raised) ==
    [objects |-> objects, living_objects |-> living_objects,
     unclaimed_observations |-> unclaimed_observations,
     rows |-> rows, fin |-> fin, trace |-> trace, raised |-> raised]

\* self._objects.pop() removes the last element
Popped(objs) == SubSeq(objs, 1, Len(objs) - 1)

RECURSIVE ObjectLoop(_, _, _)

\* if is_done: self._save_data(obj), s being what _save_data did
ObjectDone(st, frame, call, r, s) ==
    IF s.raised
    THEN LoopState(Popped(st.objects), st.living_objects,
                   r.unclaimed_observations, st.rows,
                   Append(st.fin, Finalization(r.obj, s, "death", call)),
                   st.trace, TRUE)
    ELSE ObjectLoop(
             LoopState(Popped(st.objects), st.living_objects,
                       r.unclaimed_observations, st.rows \o s.rows,
                       Append(st.fin, Finalization(r.obj, s, "death", call)),
                       st.trace, FALSE),
             frame, call)

ObjectStep_KeepDone(st, frame, call, r, te) ==
    IF r.is_done
    THEN ObjectDone([st EXCEPT !.trace = Append(@, te),
                               !.living_objects = Append(@, r.obj)],
                    frame, call, r, _save_data(r.obj))
    ELSE ObjectLoop(
             LoopState(Popped(st.objects), Append(st.living_objects, r.obj),
                       r.unclaimed_observations, st.rows, st.fin,
                       Append(st.trace, te), FALSE),
             frame, call)

\* one pass of the loop body after the call of
\* data_association_and_kalman_update (r): save the object or keep it
ObjectStep(st, frame, call, r, te) ==
    IF r.is_done
    THEN ObjectDone([st EXCEPT !.trace = Append(@, te)], frame, call, r,
                    _save_data(r.obj))
    ELSE ObjectLoop(
             LoopState(Popped(st.objects), Append(st.living_objects, r.obj),
                       r.unclaimed_observations, st.rows, st.fin,
                       Append(st.trace, te), FALSE),
             frame, call)

\* one pass, r being the result of data_association_and_kalman_update
ObjectPass(st, frame, call, r) ==
    ObjectStep(st, frame, call, r,
               TraceEntry(st.objects[Len(st.objects)],
                          st.unclaimed_observations, r))

\* while len(self._objects): obj = self._objects.pop(); ... of
\* handle_frame_data
ObjectLoop(st, frame, call) ==
    IF Len(st.objects) = 0
    THEN st
    ELSE ObjectPass(st, frame, call,
             data_association_and_kalman_update(
                 st.objects[Len(st.objects)], frame, st.unclaimed_observations))

RECURSIVE BirthLoop(_, _, _, _, _)

BirthLoop_SameId(unclaimed_observations, frame, next_id, objects, births) ==
    IF Len(unclaimed_observations) = 0
    THEN [objects |-> objects,
          next_obj_id |-> IF births = <<>> THEN next_id ELSE next_id + 1,
          births |-> births]
    ELSE BirthLoop(Popped(unclaimed_observations), frame, next_id,
             Append(objects,
                    handle_birth(next_id, frame,
                        unclaimed_observations[Len(unclaimed_observations)].xy)),
             Append(births,
                    [obj_id |-> next_id,
                     i |-> unclaimed_observations[Len(unclaimed_observations)].i]))

\* while len(unclaimed_observations): this_observation = ....pop(); ...
BirthLoop(unclaimed_observations, frame, next_id, objects, births) ==
    IF Len(unclaimed_observations) = 0
    THEN [objects |-> objects, next_obj_id |-> next_id, births |-> births]
    ELSE BirthLoop(Popped(unclaimed_observations), frame, next_id + 1,
             Append(objects,
                    handle_birth(next_id, frame,
                        unclaimed_observations[Len(unclaimed_observations)].xy)),
             Append(births,
                    [obj_id |-> next_id,
                     i |-> unclaimed_observations[Len(unclaimed_observations)].i]))

RECURSIVE CloseLoop(_, _, _, _)

CloseStep_Once(objs, rows, fin, call, s) ==
    [objects |-> Popped(objs), rows |-> rows \o s.rows,
     fin |-> Append(fin, Finalization(objs[Len(objs)], s, "close", call)),
     raised |-> s.raised]

\* one pass of the loop of close, s being what _save_data did
CloseStep(objs, rows, fin, call, s) ==
    IF s.raised
    THEN [objects |-> Popped(objs), rows |-> rows,
          fin |-> Append(fin, Finalization(objs[Len(objs)], s, "close", call)),
          raised |-> TRUE]
    ELSE CloseLoop(Popped(objs), rows \o s.rows,
                   Append(fin, Finalization(objs[Len(objs)], s, "close", call)),
                   call)

\* while len(self._objects): obj = self._objects.pop(); self._save_data(obj)
CloseLoop(objs, rows, fin, call) ==
    IF Len(objs) = 0
    THEN [objects |-> objs, rows |-> rows, fin |-> fin, raised |-> FALSE]
    ELSE CloseStep(objs, rows, fin, call, _save_data(objs[Len(objs)]))

(* ------------------------------- inputs -------------------------------- *)
\* coordinates (x, y) an observation can have: 4.5 mm steps, so that two
\* neighbouring points are within the 5 mm gate of each other and the two
\* outer ones are not
Points == { <<0, 0>>, <<4500, 0>>, <<0, 4500>> }

\* the observation lists of one frame: distinct points, in any order
ObservationLists ==
    { q \in UNION { [1..n -> Points] : n \in 0..Cardinality(Points) } :
        \A j, k \in 1..Len(q) : j # k => q[j] # q[k] }

\* one entry of the log of calls
Call(op, frame, observations) ==
    [op |-> op, frame |-> frame, observations |-> observations]

\* no call made yet
NoCall == [frame |-> -1, prev_frame |-> -1, observations |-> <<>>,
           trace |-> <<>>, births |-> <<>>, returned |-> FALSE]

\* frame = None
None == -1

\* the locals of main: the rows of df, the position of the next row, frame,
\* observations, and where main stands
MainState(df, i, frame, observations, at) ==
    [df |-> df, i |-> i, frame |-> frame, observations |-> observations,
     at |-> at]

\* the Tracker is driven directly, not by main
NotInMain == MainState(<<>>, 0, None, <<>>, "none")

(* ------------------------------- actions ------------------------------- *)
\* Tracker.__init__
Init ==
    /\ _dt = DtNum
    /\ _objects = <<>>
    /\ next_obj_id = 0
    /\ _results_fd = Header
    /\ pc = "running"
    /\ ncalls = 0
    /\ last_call = NoCall
    /\ finalized = <<>>
    /\ inputs = <<>>
    /\ main = NotInMain

\* the log entry of a call
CallLog(frame, observations, p, births, returned) ==
    [frame |-> frame, prev_frame |-> last_call.frame,
     observations |-> observations,
     trace |-> p.trace, births |-> births, returned |-> returned]

\* the end of handle_frame_data: self._objects = living_objects followed by
\* the births (b)
Births(frame, observations, p, b) ==
    /\ pc' = "running"
    /\ _objects' = b.objects
    /\ next_obj_id' = b.next_obj_id
    /\ last_call' = CallLog(frame, observations, p, b.births, TRUE)

\* handle_frame_data after the object loop (p)
AfterObjectLoop(frame, observations, p) ==
    /\ ncalls' = ncalls + 1
    /\ UNCHANGED _dt
    /\ _results_fd' = _results_fd \o p.rows
    /\ finalized' = finalized \o p.fin
    /\ IF p.raised
       THEN /\ pc' = "raised"
            /\ _objects' = p.objects
            /\ next_obj_id' = next_obj_id
            /\ last_call' = CallLog(frame, observations, p, <<>>, FALSE)
       ELSE Births(frame, observations, p,
                   BirthLoop(p.unclaimed_observations, frame, next_obj_id,
                             p.living_objects, <<>>))

handle_frame_data_Unordered(frame, observations) ==
    /\ pc = "running"
    /\ \E order \in {q \in [1..Len(_objects) -> 1..Len(_objects)] :
                        \A j, k \in 1..Len(_objects) : j # k => q[j] # q[k]} :
          AfterObjectLoop(frame, observations,
              ObjectLoop(
                  LoopState([k \in 1..Len(_objects) |-> _objects[order[k]]], <<>>,
                            [k \in 1..Len(observations) |-> Obs(k, observations[k])],
                            <<>>, <<>>, <<>>, FALSE),
                  frame, ncalls + 1))

\* Tracker.handle_frame_data(frame, observations)
handle_frame_data(frame, observations) ==
    /\ pc = "running"
    /\ AfterObjectLoop(frame, observations,
           ObjectLoop(
               LoopState(_objects, <<>>,
                         [k \in 1..Len(observations) |-> Obs(k, observations[k])],
                         <<>>, <<>>, <<>>, FALSE),
               frame, ncalls + 1))

\* the end of close, c being what the loop did
Closed(c) ==
    /\ pc' = IF c.raised THEN "raised" ELSE "closed"
    /\ _objects' = c.objects
    /\ _results_fd' = _results_fd \o c.rows
    /\ finalized' = finalized \o c.fin
    /\ UNCHANGED << _dt, next_obj_id, ncalls, last_call >>

\* Tracker.close()
close ==
    /\ pc = "running"
    /\ Closed(CloseLoop(_objects, <<>>, <<>>, ncalls + 1))

\* the driver hands in frames with strictly increasing frame numbers
HandleNextFrame ==
    \E frame \in (last_call.frame + 1)..MaxFrame :
        \E observations \in ObservationLists :
            /\ ncalls < MaxCalls
            /\ handle_frame_data(frame, observations)
            /\ UNCHANGED << inputs, main >>

\* the driver ends the stream
CloseCall == close /\ UNCHANGED << inputs, main >>

Next == HandleNextFrame \/ CloseCall

Spec == Init /\ [][Next]_vars

\* The same driver with the calls it makes written to the log; a frame has
\* an observation at some of the points, never at all of them.
LoggedLists == {q \in ObservationLists : Len(q) < Cardinality(Points)}

LoggedFrame ==
    \E frame \in (last_call.frame + 1)..MaxFrame :
        \E observations \in LoggedLists :
            /\ ncalls < MaxCalls
            /\ handle_frame_data(frame, observations)
            /\ inputs' = Append(inputs, Call("handle_frame_data", frame, observations))
            /\ UNCHANGED main

LoggedClose ==
    /\ close
    /\ inputs' = Append(inputs, Call("close", -1, <<>>))
    /\ UNCHANGED main

NextLogged == LoggedFrame \/ LoggedClose

SpecReplay == Init /\ [][NextLogged]_vars

\* The same driver over a scene of four points on a line, 4.5 mm apart, in
\* which the observations of one frame are further apart than the gate.
LinePoints == { <<0, 0>>, <<4500, 0>>, <<9000, 0>>, <<13500, 0>> }

Separated(q) ==
    \A j, k \in 1..Len(q) : j # k => ~ WithinGate(q[j], q[k])

LineLists ==
    { q \in UNION { [1..n -> LinePoints] : n \in 0..Cardinality(LinePoints) } :
        Separated(q) }

HandleLineFrame ==
    \E frame \in (last_call.frame + 1)..MaxFrame :
        \E observations \in LineLists :
            /\ ncalls < MaxCalls
            /\ handle_frame_data(frame, observations)
            /\ UNCHANGED << inputs, main >>

NextLine == HandleLineFrame \/ CloseCall

SpecLine == Init /\ [][NextLine]_vars

\* A caller that hands in any frame number of the range, in any order:
\* handle_frame_data itself only asserts that frame is an int.
HandleAnyFrame ==
    \E frame \in 0..MaxFrame :
        \E observations \in LoggedLists :
            /\ ncalls < MaxCalls
            /\ handle_frame_data(frame, observations)
            /\ UNCHANGED << inputs, main >>

NextAnyFrame == HandleAnyFrame \/ CloseCall

SpecAnyFrame == Init /\ [][NextAnyFrame]_vars

\* A caller that feeds one object moving at constant velocity along x: an
\* observation in each of the frames 0..MatchedFrames, then frames without
\* any observation.
MatchedFrames == 10
\* largest number of frames skipped before the first call without observation
MaxGap == 3
\* largest number of calls without observation
MaxMissing == 12

\* displacement per frame of the track
TrackSteps == {0, 500, 1000}

\* the observation of the track at a frame, the track going through its
\* birth observation and its observation at frame 1
TrackObservation(obj, frame) ==
    << obj.observations[1][1]
           + frame * (obj.observations[2][1] - obj.observations[1][1]),
       obj.observations[1][2] >>

TrackStart ==
    \E p \in Points :
        /\ ncalls = 0
        /\ handle_frame_data(0, << p >>)
        /\ UNCHANGED << inputs, main >>

TrackFirstStep ==
    \E s \in TrackSteps :
        /\ ncalls = 1
        /\ Len(_objects) = 1
        /\ handle_frame_data(1, << << _objects[1].observations[1][1] + s,
                                      _objects[1].observations[1][2] >> >>)
        /\ UNCHANGED << inputs, main >>

TrackNext ==
    /\ ncalls >= 2
    /\ last_call.frame < MatchedFrames
    /\ Len(_objects) = 1
    /\ handle_frame_data(last_call.frame + 1,
           << TrackObservation(_objects[1], last_call.frame + 1) >>)
    /\ UNCHANGED << inputs, main >>

FirstMissing ==
    \E frame \in (MatchedFrames + 1)..(MatchedFrames + 1 + MaxGap) :
        /\ last_call.frame = MatchedFrames
        /\ handle_frame_data(frame, <<>>)
        /\ UNCHANGED << inputs, main >>

NextMissing ==
    /\ last_call.frame > MatchedFrames
    /\ ncalls < MatchedFrames + 1 + MaxMissing
    /\ handle_frame_data(last_call.frame + 1, <<>>)
    /\ UNCHANGED << inputs, main >>

NextCoast ==
    \/ TrackStart
    \/ TrackFirstStep
    \/ TrackNext
    \/ FirstMissing
    \/ NextMissing
    \/ CloseCall

SpecCoast == Init /\ [][NextCoast]_vars

(* -------------------------- runs at other frame rates ------------------- *)
\* main computes dt from the timestamps of the input (calc_dt), so a run can
\* have any dt.  These runs give the Tracker a dt of MaxDt/2..MaxDt
\* milliseconds and follow one object that is born and never observed again.
MaxDt == 20

DtValues == { d \in 1..MaxDt : 2 * d >= MaxDt }

\* Tracker(dt, ...) with the dt calc_dt returned
InitDt ==
    /\ _dt \in DtValues
    /\ _objects = <<>>
    /\ next_obj_id = 0
    /\ _results_fd = Header
    /\ pc = "running"
    /\ ncalls = 0
    /\ last_call = NoCall
    /\ finalized = <<>>
    /\ inputs = <<>>
    /\ main = NotInMain

\* the first frame holds one observation
DtBirth ==
    \E observation \in Points :
        /\ ncalls = 0
        /\ handle_frame_data(0, << observation >>)
        /\ UNCHANGED << inputs, main >>

\* every later frame holds no observation near the object: the detector
\* reports nothing, or frames are skipped
DtCoast ==
    \E frame \in (last_call.frame + 1)..MaxFrame :
        /\ ncalls >= 1
        /\ ncalls < MaxCalls
        /\ handle_frame_data(frame, <<>>)
        /\ UNCHANGED << inputs, main >>

NextDt == DtBirth \/ DtCoast \/ CloseCall

SpecDt == InitDt /\ [][NextDt]_vars

(* ---------------------------------- main ------------------------------- *)
\* main reads the rows of the detection file (read_detection_csv.get_df
\* does not sort them), builds the Tracker and feeds it frame by frame.
MaxRows == 3

RowPoints == { <<0, 0>>, <<4500, 0>> }

\* one row of df: its frame and its (x, y)
Row(frame, xy) == [frame |-> frame, xy |-> xy]

RowValues == { Row(frame, xy) : frame \in 0..MaxFrame, xy \in RowPoints }

\* the files main can process with a finite dt: calc_dt divides by the
\* difference of the last and the first frame number
DataFrames ==
    UNION { { df \in [1..n -> RowValues] : df[n].frame # df[1].frame } : n \in 2..MaxRows }

\* main up to the loop: frame = None, observations = [], Tracker(dt, ...)
InitMain ==
    /\ _dt = DtNum
    /\ _objects = <<>>
    /\ next_obj_id = 0
    /\ _results_fd = Header
    /\ pc = "running"
    /\ ncalls = 0
    /\ last_call = NoCall
    /\ finalized = <<>>
    /\ inputs = <<>>
    /\ main \in { MainState(df, 1, None, <<>>, "loop") : df \in DataFrames }

\* if frame is None: frame = int(row['frame'])
FirstFrame(row, frame) == IF frame = None THEN row.frame ELSE frame

FrameAdvances_Always(row, frame) == TRUE

\* if row['frame'] > frame
FrameAdvances(row, frame) == row.frame > frame

\* one pass of the loop for a row of the current frame:
\* observations.append((row['x'], row['y']))
MainSameFrame ==
    /\ main.at = "loop"
    /\ main.i <= Len(main.df)
    /\ ~ FrameAdvances(main.df[main.i], FirstFrame(main.df[main.i], main.frame))
    /\ main' = MainState(main.df, main.i + 1,
                         FirstFrame(main.df[main.i], main.frame),
                         Append(main.observations, main.df[main.i].xy), "loop")
    /\ UNCHANGED << _dt, _objects, next_obj_id, _results_fd, pc, ncalls,
                    last_call, finalized, inputs >>

\* one pass of the loop for a row of a later frame: the frame collected so
\* far is handed to the Tracker, then the row starts the next list
MainNextFrame ==
    /\ main.at = "loop"
    /\ main.i <= Len(main.df)
    /\ FrameAdvances(main.df[main.i], FirstFrame(main.df[main.i], main.frame))
    /\ handle_frame_data(FirstFrame(main.df[main.i], main.frame), main.observations)
    /\ inputs' = Append(inputs,
                        Call("handle_frame_data",
                             FirstFrame(main.df[main.i], main.frame),
                             main.observations))
    /\ main' = MainState(main.df, main.i + 1, main.df[main.i].frame,
                         << main.df[main.i].xy >>, "loop")

\* tracker.handle_frame_data(frame, observations) after the loop
MainLastFrame ==
    /\ main.at = "loop"
    /\ main.i > Len(main.df)
    /\ handle_frame_data(main.frame, main.observations)
    /\ inputs' = Append(inputs,
                        Call("handle_frame_data", main.frame, main.observations))
    /\ main' = [main EXCEPT !.at = "close"]

\* tracker.close()
MainClose ==
    /\ main.at = "close"
    /\ close
    /\ inputs' = Append(inputs, Call("close", -1, <<>>))
    /\ main' = [main EXCEPT !.at = "done"]

NextMain == MainSameFrame \/ MainNextFrame \/ MainLastFrame \/ MainClose

SpecMain == InitMain /\ [][NextMain]_vars

(* ------------------------------ a second run --------------------------- *)
\* The Tracker of a run, as one value.
TrackerState(objects, next_id, results, p, n, call, fin) ==
    [_objects |-> objects, next_obj_id |-> next_id, _results_fd |-> results,
     pc |-> p, ncalls |-> n, last_call |-> call, finalized |-> fin]

\* Tracker.__init__ of the second run
FreshTracker == TrackerState(<<>>, 0, Header, "running", 0, NoCall, <<>>)

\* the second run's handle_frame_data after its object loop (p) and its
\* births (b)
ReplayBirths(t, frame, observations, p, b) ==
    TrackerState(b.objects, b.next_obj_id, t._results_fd \o p.rows, "running",
                 t.ncalls + 1,
                 [frame |-> frame, prev_frame |-> t.last_call.frame,
                  observations |-> observations, trace |-> p.trace,
                  births |-> b.births, returned |-> TRUE],
                 t.finalized \o p.fin)

\* the second run's handle_frame_data after its object loop (p)
ReplayAfterObjectLoop(t, frame, observations, p) ==
    IF p.raised
    THEN TrackerState(p.objects, t.next_obj_id, t._results_fd \o p.rows, "raised",
                      t.ncalls + 1,
                      [frame |-> frame, prev_frame |-> t.last_call.frame,
                       observations |-> observations, trace |-> p.trace,
                       births |-> <<>>, returned |-> FALSE],
                      t.finalized \o p.fin)
    ELSE ReplayBirths(t, frame, observations, p,
                      BirthLoop(p.unclaimed_observations, frame, t.next_obj_id,
                                p.living_objects, <<>>))

\* handle_frame_data(frame, observations) on the Tracker t of the second run
ReplayFrame(t, frame, observations) ==
    ReplayAfterObjectLoop(t, frame, observations,
        ObjectLoop(
            LoopState(t._objects, <<>>,
                      [k \in 1..Len(observations) |-> Obs(k, observations[k])],
                      <<>>, <<>>, <<>>, FALSE),
            frame, t.ncalls + 1))

\* the end of close on the Tracker t of the second run
ReplayClosed(t, c) ==
    TrackerState(c.objects, t.next_obj_id, t._results_fd \o c.rows,
                 IF c.raised THEN "raised" ELSE "closed",
                 t.ncalls, t.last_call, t.finalized \o c.fin)

\* close() on the Tracker t of the second run
ReplayClose(t) == ReplayClosed(t, CloseLoop(t._objects, <<>>, <<>>, t.ncalls + 1))

\* one call of the log on the Tracker t of the second run
ReplayCall(t, c) ==
    IF c.op = "close" THEN ReplayClose(t)
    ELSE ReplayFrame(t, c.frame, c.observations)

RECURSIVE Replay(_, _)
\* the Tracker of a second run after the first n calls of the log
Replay(calls, n) ==
    IF n = 0 THEN FreshTracker
    ELSE ReplayCall(Replay(calls, n - 1), calls[n])

(* ------------------------- reading the call log ------------------------ *)
Trace == last_call.trace

TraceIdx == 1..Len(last_call.trace)

ObsIdx == 1..Len(last_call.observations)

\* the indices of the records a trace entry's call added to the history
NewRecords(te) == (Len(te.pre.frames) + 1)..Len(te.post.frames)

\* those that carry a real observation
RealNewRecords(te) ==
    {k \in NewRecords(te) : te.post.observations[k] # <<nan, nan>>}

\* those that carry the missing-observation marker
MissingNewRecords(te) ==
    {k \in NewRecords(te) : te.post.observations[k] = <<nan, nan>>}

\* how many objects consumed observation i of the last call
ClaimCount(i) ==
    Cardinality({k \in TraceIdx :
                    \E c \in 1..Len(Trace[k].claimed) : Trace[k].claimed[c] = i})

BirthCount(i) ==
    Cardinality({b \in 1..Len(last_call.births) : last_call.births[b].i = i})

LiveIds == {_objects[k].obj_id : k \in 1..Len(_objects)}

FinalizedIds == {finalized[k].obj_id : k \in 1..Len(finalized)}

StrictlyIncreasing(q) == \A k \in 1..(Len(q) - 1) : q[k] < q[k + 1]

(* -------------------------------- claims ------------------------------- *)

\* C1: after handle_frame_data returns, every observation of the frame's
\* list was recorded by exactly one previously live object or is the birth
\* observation of exactly one new object.
C1_NoObservationLost ==
    last_call.returned =>
        \A i \in ObsIdx : ClaimCount(i) + BirthCount(i) = 1

\* C2: within one handle_frame_data call each observation of the list is
\* consumed at most once: never by two live objects, never by a live object
\* and a birth.
C2_ExclusiveClaim ==
    /\ \A i \in ObsIdx : ClaimCount(i) + BirthCount(i) <= 1
    /\ \A k \in TraceIdx : \A c \in 1..Len(Trace[k].claimed) :
          /\ Trace[k].claimed[c] \in ObsIdx
          /\ \E r \in RealNewRecords(Trace[k]) :
                Trace[k].post.observations[r]
                    = last_call.observations[Trace[k].claimed[c]]

\* C2 witness: in one call a live object claimed an observation and another
\* observation of the same list gave birth to a new object.
C2_Witness ==
    /\ last_call.returned
    /\ \E i, j \in ObsIdx : i # j /\ ClaimCount(i) = 1 /\ BirthCount(j) = 1

\* C3: one call of data_association_and_kalman_update appends at most one
\* record with a real observation, however many observations are in the gate.
C3_AtMostOneObservationPerCall ==
    \A k \in TraceIdx :
        /\ Cardinality(RealNewRecords(Trace[k])) <= 1
        /\ Len(Trace[k].claimed) = Cardinality(RealNewRecords(Trace[k]))

\* C3 witness: an object was handed two observations that both lie within
\* its gate and recorded one of them.
C3_Witness ==
    \E k \in TraceIdx :
        /\ Trace[k].reached
        /\ Cardinality({h \in 1..Len(Trace[k].handed) :
               SquaredDistance(Trace[k].predicted, Trace[k].handed[h].xy)
                   <= data_association_distance_threshold_meters
                       * data_association_distance_threshold_meters}) >= 2
        /\ Cardinality(RealNewRecords(Trace[k])) = 1

\* C4: the observation an object claims has minimum Euclidean distance to
\* the predicted position among the observations handed to the object.
C4_NearestNeighbour ==
    \A k \in TraceIdx :
        (Trace[k].reached /\ Len(Trace[k].claimed) > 0) =>
            \A h \in 1..Len(Trace[k].handed) :
                SquaredDistance(Trace[k].predicted,
                                last_call.observations[Trace[k].claimed[1]])
                    <= SquaredDistance(Trace[k].predicted, Trace[k].handed[h].xy)

\* C5: an object claims an observation only if it is within 0.005 m of the
\* predicted position, and an object that reaches the association step
\* claims nothing exactly when no observation handed to it is within 0.005 m.
C5_DistanceGate ==
    \A k \in TraceIdx :
        Trace[k].reached =>
            /\ \A r \in RealNewRecords(Trace[k]) :
                  SquaredDistance(Trace[k].predicted, Trace[k].post.observations[r])
                      <= data_association_distance_threshold_meters
                          * data_association_distance_threshold_meters
            /\ (RealNewRecords(Trace[k]) = {})
                 <=> (\A h \in 1..Len(Trace[k].handed) :
                         SquaredDistance(Trace[k].predicted, Trace[k].handed[h].xy)
                             > data_association_distance_threshold_meters
                                 * data_association_distance_threshold_meters)

\* C5 witness: in one call an object claimed an observation while another
\* object, handed an observation beyond its gate, claimed nothing.
C5_Witness ==
    /\ \E k \in TraceIdx :
          Trace[k].reached /\ RealNewRecords(Trace[k]) # {}
    /\ \E k \in TraceIdx :
          /\ Trace[k].reached
          /\ Len(Trace[k].handed) > 0
          /\ RealNewRecords(Trace[k]) = {}

\* C6: an object is handed to _save_data at most once, and a finalized
\* object is never live again and is never processed (Kalman step, claim)
\* by a later call.
C6_NoReentry ==
    /\ \A j, k \in 1..Len(finalized) :
          j # k => finalized[j].obj_id # finalized[k].obj_id
    /\ LiveIds \cap FinalizedIds = {}
    /\ \A t \in TraceIdx : \A k \in 1..Len(finalized) :
          finalized[k].obj_id = Trace[t].pre.obj_id =>
              /\ finalized[k].call >= ncalls
              /\ finalized[k].untrimmed = Trace[t].post

\* C6 witness: an object was finalized by an earlier call and a later call
\* processed live objects.
C6_Witness ==
    /\ \E k \in 1..Len(finalized) : finalized[k].call < ncalls
    /\ Len(Trace) > 0
    /\ Len(_objects) > 0

\* C7: an object processed by a handle_frame_data call is removed from the
\* live set and finalized if and only if sqrt(P00^2 + P11^2) of its last
\* recorded covariance exceeds 7500*dt^3/3; otherwise it stays live.
C7_DeathCondition ==
    (last_call.returned /\ pc = "running") =>
        \A t \in TraceIdx :
            LET o == Trace[t].post
                P == o.covariance_estimates[Len(o.covariance_estimates)]
                exceeds == position_coveriance_scalar(P) > max_position_covarance
                dead == /\ o.obj_id \notin LiveIds
                        /\ \E k \in 1..Len(finalized) :
                              /\ finalized[k].untrimmed = o
                              /\ finalized[k].call = ncalls
                live == /\ \E k \in 1..Len(_objects) : _objects[k] = o
                        /\ o.obj_id \notin FinalizedIds
            IN  IF exceeds THEN dead ELSE live

\* C7 witness: one call killed an object and kept another one.
C7_Witness ==
    /\ last_call.returned
    /\ pc = "running"
    /\ \E t \in TraceIdx : Trace[t].is_done
    /\ \E t \in TraceIdx : ~ Trace[t].is_done

\* the frame numbers of the coasting records a trace entry's call replayed,
\* in the order they were appended
Replayed(te) ==
    [j \in 1..Cardinality(MissingNewRecords(te)) |->
        te.post.frames[Len(te.pre.frames) + j]]

\* the death condition holds for the j-th record the call appended
DeadAfter(te, j) ==
    position_coveriance_scalar(te.post.covariance_estimates[Len(te.pre.frames) + j])
        > max_position_covarance

\* C8: a call for frame f replays a coasting step for exactly the frames
\* after the object's last processed frame (the frame of the previous call)
\* and before f, in increasing order, none for a frame already processed,
\* and stops at the first step after which the death condition holds.
C8_MissingFrameReplay ==
    \A t \in TraceIdx :
        LET te == Trace[t]
            R == Replayed(te)
            missing == last_call.frame - last_call.prev_frame - 1
        IN  /\ Len(R) <= missing
            /\ \A j \in 1..Len(R) : R[j] = last_call.prev_frame + j
            /\ \A j \in 1..(Len(R) - 1) : ~ DeadAfter(te, j)
            /\ Len(R) < missing => (Len(R) >= 1 /\ DeadAfter(te, Len(R)))

\* C9: after handle_frame_data(f, O) returns, every object that was live
\* before the call and is still live has a last record for frame f, with the
\* observation it claimed or else with the missing-observation marker.
C9_MatchedOrCoasting ==
    (last_call.returned /\ pc = "running") =>
        \A t \in TraceIdx :
            LET te == Trace[t]
                n == Len(te.post.frames)
            IN  ~ te.is_done =>
                    /\ n > Len(te.pre.frames)
                    /\ te.post.frames[n] = last_call.frame
                    /\ IF Len(te.claimed) > 0
                       THEN te.post.observations[n]
                                = last_call.observations[te.claimed[1]]
                       ELSE te.post.observations[n] = <<nan, nan>>

\* the records written to the results file
Records == {k \in 1..Len(_results_fd) : _results_fd[k].kind = "record"}

\* C10: the frame numbers of every object's history are strictly
\* increasing, and the output holds no two records with the same
\* (object, frame).
C10_OneRecordPerFrame ==
    /\ \A k \in 1..Len(_objects) : StrictlyIncreasing(_objects[k].frames)
    /\ \A k \in 1..Len(finalized) : StrictlyIncreasing(finalized[k].obj.frames)
    /\ \A j, k \in Records :
          (j # k /\ _results_fd[j].obj_id = _results_fd[k].obj_id)
              => _results_fd[j].frame # _results_fd[k].frame

\* the four history lists of an object have one length
Aligned(o) ==
    /\ Len(o.state_estimates) = Len(o.frames)
    /\ Len(o.covariance_estimates) = Len(o.frames)
    /\ Len(o.observations) = Len(o.frames)

\* C11: the lists frames, state_estimates, covariance_estimates and
\* observations of every object have the same length after handle_birth,
\* after each data_association_and_kalman_update and after the trimming of
\* _save_data.
C11_HistoryAlignment ==
    /\ \A k \in 1..Len(_objects) : Aligned(_objects[k])
    /\ \A t \in TraceIdx : Aligned(Trace[t].pre) /\ Aligned(Trace[t].post)
    /\ \A k \in 1..Len(finalized) :
          Aligned(finalized[k].untrimmed) /\ Aligned(finalized[k].obj)

\* a finalization whose trimming cut records off a history that keeps some,
\* next to a live object that has had an update
C11_Witness ==
    /\ \E k \in 1..Len(finalized) :
          /\ Len(finalized[k].obj.frames) < Len(finalized[k].untrimmed.frames)
          /\ Len(finalized[k].obj.frames) >= 1
    /\ \E k \in 1..Len(_objects) : Len(_objects[k].frames) >= 2

\* C12: after the trimming of _save_data the last record of the history is
\* a record of a real observation, never a coast-only record.
C12_TrimmedEndsWithObservation ==
    \A k \in 1..Len(finalized) :
        Len(finalized[k].obj.frames) >= 1 =>
            finalized[k].obj.observations[Len(finalized[k].obj.frames)] # <<nan, nan>>

\* the x span and the y span of the filtered positions of a trimmed history
x_span(t) == SeqMax(x_meters(t)) - SeqMin(x_meters(t))

y_span(t) == SeqMax(y_meters(t)) - SeqMin(y_meters(t))

\* the larger of the two spans
LargerSpan(t) == IF x_span(t) >= y_span(t) THEN x_span(t) ELSE y_span(t)

\* the output holds records of the object finalized as finalized[k]
Written(k) == \E j \in Records : _results_fd[j].obj_id = finalized[k].obj_id

\* the median uncertainty of the trimmed history passes the quality gate
QualityOk(t) == median_covar_scalar(t) <= median_covar_scalar_threshold

\* C13: the records of a finalized trajectory are written if and only if the
\* median uncertainty metric of the trimmed history is at most the quality
\* threshold and the excursion distance (the larger of the x span and the
\* y span) is strictly greater than 2 mm.
C13_AcceptedIffBothGates ==
    \A k \in 1..Len(finalized) :
        Len(finalized[k].obj.frames) >= 1 =>
            (Written(k) <=>
                /\ QualityOk(finalized[k].obj)
                /\ LargerSpan(finalized[k].obj) > minimum_excursion_distance)

\* C14: the excursion distance compared against the 2 mm minimum is the
\* larger of the x span and the y span, so a trajectory of good quality whose
\* y span exceeds 2 mm passes the motion gate whatever its x span.
C14_ExcursionIsLargerSpan ==
    \A k \in 1..Len(finalized) :
        Len(finalized[k].obj.frames) >= 1 =>
            /\ excursion_distance(finalized[k].obj) = LargerSpan(finalized[k].obj)
            /\ (QualityOk(finalized[k].obj)
                    /\ y_span(finalized[k].obj) > minimum_excursion_distance)
                => finalized[k].accepted

RECURSIVE AcceptedRows(_)
\* the records of the accepted ones of the first k finalizations, in order
AcceptedRows(k) ==
    IF k = 0 THEN <<>>
    ELSE IF finalized[k].accepted
         THEN AcceptedRows(k - 1) \o Rows(finalized[k].obj)
         ELSE AcceptedRows(k - 1)

\* C15: a finalization that fails the quality gate or the motion gate appends
\* nothing to the results file; after the header the file holds exactly the
\* records of the accepted trajectories, in the order of their finalization.
C15_OnlyAcceptedWritten ==
    /\ _results_fd = Header \o AcceptedRows(Len(finalized))
    /\ \A k \in 1..Len(finalized) : ~ finalized[k].accepted => ~ Written(k)

\* one trajectory accepted and written, one rejected by the quality gate and
\* one of good quality rejected by the motion gate
C15_Witness ==
    /\ \E k \in 1..Len(finalized) : finalized[k].accepted /\ Written(k)
    /\ \E k \in 1..Len(finalized) :
          /\ ~ finalized[k].accepted
          /\ ~ QualityOk(finalized[k].obj)
    /\ \E k \in 1..Len(finalized) :
          /\ ~ finalized[k].accepted
          /\ QualityOk(finalized[k].obj)
          /\ ~ (excursion_distance(finalized[k].obj) > minimum_excursion_distance)

\* how many finalizations the object with this id has had
FinalizationCount(id) ==
    Cardinality({k \in 1..Len(finalized) : finalized[k].obj_id = id})

\* C16: close returns, hands every object of the live set to _save_data and
\* leaves the live set empty: once close has returned, every object ever
\* created has been finalized exactly once.
C16_CloseFinalizesAll ==
    /\ \A k \in 1..Len(finalized) : finalized[k].via = "close" => pc = "closed"
    /\ pc = "closed" =>
          /\ _objects = <<>>
          /\ \A id \in 0..(next_obj_id - 1) : FinalizationCount(id) = 1
          /\ \A k \in 1..Len(finalized) :
                finalized[k].obj_id \in 0..(next_obj_id - 1)

\* close has returned after finalizing two objects itself, a third having
\* died in an earlier call
C16_Witness ==
    /\ pc = "closed"
    /\ Cardinality({k \in 1..Len(finalized) : finalized[k].via = "close"}) >= 2
    /\ \E k \in 1..Len(finalized) : finalized[k].via = "death"

ObservedRecords == {k \in Records : _results_fd[k].obs # <<nan, nan>>}

C19_BirthOnUnclaimed ==
    (/\ ncalls = 1
     /\ pc = "running"
     /\ Len(last_call.observations) = 1)
        => /\ Len(_objects) = 1
           /\ next_obj_id = 1
           /\ finalized = <<>>
           /\ _objects[1].obj_id = 0
           /\ _objects[1].frames = << last_call.frame >>
           /\ _objects[1].observations = << last_call.observations[1] >>
           /\ _objects[1].state_estimates =
                  << << last_call.observations[1][1],
                        last_call.observations[1][2], 0, 0 >> >>

\* the first call was handle_frame_data(2, [(0.0045, 0)]) and left one object
C19_Witness ==
    /\ ncalls = 1
    /\ pc = "running"
    /\ last_call.frame = 2
    /\ last_call.observations = << <<4500, 0>> >>
    /\ Len(last_call.births) = 1
    /\ Len(_objects) = 1

\* every object created so far, live or finalized, as it was last seen
AllObjects ==
    {_objects[k] : k \in 1..Len(_objects)}
        \cup {finalized[k].untrimmed : k \in 1..Len(finalized)}

\* C20: ids are assigned at birth from next_obj_id, which starts at 0 and
\* grows by one per birth: the births of a call get consecutive ids ending
\* at next_obj_id - 1, no two objects share an id, an object created in a
\* later call has a larger id, and next_obj_id is the number of objects
\* created so far.
C20_ObjectIdentity ==
    /\ ncalls = 0 => next_obj_id = 0
    /\ \A b \in 1..Len(last_call.births) :
          last_call.births[b].obj_id = next_obj_id - Len(last_call.births) + b - 1
    /\ \A j, k \in 1..Len(_objects) :
          j # k => _objects[j].obj_id # _objects[k].obj_id
    /\ \A j, k \in 1..Len(finalized) :
          j # k => finalized[j].obj_id # finalized[k].obj_id
    /\ LiveIds \cap FinalizedIds = {}
    /\ LiveIds \cup FinalizedIds = 0..(next_obj_id - 1)
    /\ \A a, b \in AllObjects :
          a.frames[1] < b.frames[1] => a.obj_id < b.obj_id

\* four objects created in two calls or more, some finalized and some live
C20_Witness ==
    /\ next_obj_id >= 4
    /\ Len(last_call.births) >= 1
    /\ Len(last_call.births) < next_obj_id
    /\ FinalizedIds # {}
    /\ Len(_objects) >= 2

\* C21: in every handle_frame_data call the live objects attempt their
\* claims last-created-first, i.e. in strictly decreasing order of object id.
C21_LastCreatedFirst ==
    \A t \in TraceIdx :
        t > 1 => Trace[t - 1].pre.obj_id > Trace[t].pre.obj_id

\* C22: a call handle_frame_data(f, O) whose frame number is equal to or
\* smaller than that of the previous call fails, and changes neither the
\* live set and the histories in it, nor the id counter, nor the output.
C22_FailFastOnFrameNumber ==
    [][(/\ ncalls' = ncalls + 1
        /\ ncalls >= 1
        /\ last_call'.frame <= last_call.frame)
          => /\ pc' = "raised"
             /\ UNCHANGED << _objects, next_obj_id, _results_fd, finalized >>]_vars

\* the object has a record of a real observation for each of the frames
\* 1..MatchedFrames after its birth
MatchedRun(obj) ==
    \A g \in 1..MatchedFrames :
        \E k \in 1..Len(obj.frames) :
            obj.frames[k] = obj.frames[1] + g /\ obj.observations[k] # <<nan, nan>>

\* the uncertainty metric of the k-th record of a history
RecordMetric(obj, k) == position_coveriance_scalar(obj.covariance_estimates[k])

\* the object of a trace entry has coasted up to frame g: its history holds a
\* coast record for g whose metric is larger than that of the record before
CoastRecorded(obj, g) ==
    \E k \in 2..Len(obj.frames) :
        /\ obj.frames[k] = g
        /\ obj.observations[k] = <<nan, nan>>
        /\ RecordMetric(obj, k) > RecordMetric(obj, k - 1)

\* the last frame the object of a trace entry has lived: the frame of the
\* record at which it was found done, or the frame of the call
LastCoastFrame(te) ==
    IF te.is_done THEN te.post.frames[Len(te.post.frames)] ELSE last_call.frame

\* C23: an object matched for 10 consecutive frames that then receives no
\* observation has, for every missing frame, a recorded covariance whose
\* metric is strictly larger than the one before, and it is finalized
\* exactly at the first missing frame whose metric exceeds the death
\* threshold.
C23_CoastingDecay ==
    \A t \in TraceIdx :
        (/\ MatchedRun(Trace[t].pre)
         /\ last_call.frame > Trace[t].pre.frames[1] + MatchedFrames
         /\ Trace[t].claimed = <<>>)
          => /\ \A g \in (Trace[t].pre.frames[1] + MatchedFrames + 1)
                              ..LastCoastFrame(Trace[t]) :
                    CoastRecorded(Trace[t].post, g)
             /\ Trace[t].is_done <=>
                    RecordMetric(Trace[t].post, Len(Trace[t].post.frames))
                        > max_position_covarance
             /\ \A k \in 1..(Len(Trace[t].post.frames) - 1) :
                    Trace[t].post.frames[k] > Trace[t].pre.frames[1] + MatchedFrames
                        => RecordMetric(Trace[t].post, k) <= max_position_covarance

(* ------------------------------- C24 ----------------------------------- *)
\* the object of finalization k was never matched after its birth
CoastingOnly(k) ==
    /\ Len(finalized[k].untrimmed.observations) >= 1
    /\ \A j \in 2..Len(finalized[k].untrimmed.observations) :
           finalized[k].untrimmed.observations[j] = <<nan, nan>>

\* C24: an object that receives no real observation after its birth
\* observation is never written when it is finalized, because the median of
\* its uncertainty metric exceeds the quality threshold 7111*dt^3/3.
C24_QualityGateRejectsCoastingOnly ==
    \A k \in 1..Len(finalized) :
        CoastingOnly(k) =>
            /\ ~ finalized[k].accepted
            /\ ~ Written(k)
            /\ ~ QualityOk(finalized[k].obj)

\* C24 (amended): an object that receives no real observation after its birth
\* observation is never written when it is finalized: its trimmed history is
\* the birth record alone, whose excursion is zero, so the motion gate rejects
\* it at every dt; the quality gate rejects it as well when the birth metric
\* (which does not depend on dt) exceeds 7111*dt^3/3, as it does at dt = 0.015.
C24_CoastingOnlyNeverWritten ==
    \A k \in 1..Len(finalized) :
        CoastingOnly(k) =>
            /\ ~ finalized[k].accepted
            /\ ~ Written(k)
            /\ ~ finalized[k].raised
            /\ Len(finalized[k].obj.frames) = 1
            /\ ~ (excursion_distance(finalized[k].obj) > minimum_excursion_distance)
            /\ ~ QualityOk(finalized[k].obj) <=>
                   RecordMetric(finalized[k].untrimmed, 1) > median_covar_scalar_threshold
            /\ _dt <= DtNum => ~ QualityOk(finalized[k].obj)

\* a coasting-only object with coast records passes the quality gate and is
\* still not written
C24_Witness ==
    \E k \in 1..Len(finalized) :
        /\ CoastingOnly(k)
        /\ Len(finalized[k].untrimmed.frames) > 1
        /\ QualityOk(finalized[k].obj)
        /\ ~ finalized[k].accepted
        /\ ~ Written(k)

(* ------------------------------- C25 ----------------------------------- *)
\* C25: the results sink begins with the comment line recording dt, followed
\* by the column header; both precede every trajectory record, in every
\* state of every run, whether or not any trajectory is accepted.
C25_HeaderBeforeRecords ==
    /\ Len(_results_fd) >= 2
    /\ _results_fd[1] = [kind |-> "comment", dt |-> << _dt, DtDen >>]
    /\ _results_fd[2] = [kind |-> "columns"]
    /\ \A k \in 1..Len(_results_fd) : _results_fd[k].kind = "record" <=> k > 2

\* a closed run that wrote records for one object and rejected another
C25_Witness ==
    /\ pc = "closed"
    /\ Len(_results_fd) > 2
    /\ \E k \in 1..Len(finalized) : ~ finalized[k].accepted
    /\ \E k \in 1..Len(finalized) : finalized[k].accepted

(* ------------------------------- C26 ----------------------------------- *)
\* the squared gate radius
GateSquared ==
    data_association_distance_threshold_meters
        * data_association_distance_threshold_meters

\* the positions, in the list handed to the object of trace entry te, of the
\* observations the object claimed
ClaimedPositions(te) ==
    {h \in 1..Len(te.handed) : \E c \in 1..Len(te.claimed) : te.handed[h].i = te.claimed[c]}

PredictSteps(n) == n - 1

\* C27: whenever an object born at frame b is matched to an observation at
\* frame f, the prior used for that update results from exactly f - b
\* time-advance steps of its Kalman filter since birth.
C27_FilterTimeInStep ==
    \A o \in AllObjects :
        \A n \in 2..Len(o.frames) :
            o.observations[n] # <<nan, nan>> =>
                PredictSteps(n) = o.frames[n] - o.frames[1]

(* ------------------------------- C28 ----------------------------------- *)
\* C28: an object finalized during the missing-frame replay consumes nothing
\* from the current frame: it is done, the records the call appended are
\* coasting records for earlier frames only, it claims nothing, and the list
\* handed to it goes unchanged (same elements, same order) to the next object
\* of the loop or, after the last object, to the birth step, which gives
\* birth to one object per element, last element first.
C28_ReplayDeathConsumesNothing ==
    \A k \in TraceIdx :
        ~ Trace[k].reached =>
            /\ Trace[k].is_done
            /\ \E j \in 1..Len(finalized) :
                  /\ finalized[j].obj_id = Trace[k].pre.obj_id
                  /\ finalized[j].via = "death"
                  /\ finalized[j].call = ncalls
            /\ Trace[k].claimed = <<>>
            /\ RealNewRecords(Trace[k]) = {}
            /\ \A r \in NewRecords(Trace[k]) :
                  Trace[k].post.frames[r] < last_call.frame
            /\ Trace[k].post._last_observation_frame
                   = Trace[k].pre._last_observation_frame
            /\ Trace[k].unclaimed = Trace[k].handed
            /\ k < Len(Trace) => Trace[k + 1].handed = Trace[k].handed
            /\ (k = Len(Trace) /\ last_call.returned) =>
                  /\ Len(last_call.births) = Len(Trace[k].handed)
                  /\ \A h \in 1..Len(Trace[k].handed) :
                        last_call.births[Len(Trace[k].handed) + 1 - h].i
                            = Trace[k].handed[h].i

\* an object died in the replay while holding a list of two observations,
\* and another object was processed after it
C28_Witness ==
    \E k \in TraceIdx :
        /\ ~ Trace[k].reached
        /\ Len(Trace[k].handed) >= 2
        /\ k < Len(Trace)

(* ------------------------------- C29 ----------------------------------- *)
\* C29: for calls with strictly increasing frame numbers, whenever _save_data
\* finalizes an object its trimmed history is not empty: its first record is
\* the birth record, with the birth frame and the real birth observation, so
\* the gate computations and the pixel transform have at least one record and
\* do not raise.
C29_TrimmedHistoryNotEmpty ==
    /\ pc # "raised"
    /\ \A k \in 1..Len(finalized) :
          /\ ~ finalized[k].raised
          /\ Len(finalized[k].obj.frames) >= 1
          /\ Len(finalized[k].obj.state_estimates) = Len(finalized[k].obj.frames)
          /\ Len(finalized[k].obj.covariance_estimates) = Len(finalized[k].obj.frames)
          /\ Len(finalized[k].obj.observations) = Len(finalized[k].obj.frames)
          /\ finalized[k].obj.frames[1] = finalized[k].untrimmed.frames[1]
          /\ finalized[k].obj.observations[1] = finalized[k].untrimmed.observations[1]
          /\ finalized[k].obj.observations[1] \in Points
          /\ finalized[k].obj.state_estimates[1] = finalized[k].untrimmed.state_estimates[1]
          /\ \A n \in 1..Len(finalized[k].untrimmed.frames) :
                finalized[k].untrimmed.frames[1] <= finalized[k].untrimmed.frames[n]

\* the trimming cut every record but the birth record
C29_Witness ==
    \E k \in 1..Len(finalized) :
        /\ Len(finalized[k].obj.frames) = 1
        /\ Len(finalized[k].untrimmed.frames) > 1
        /\ finalized[k].via = "death"

(* ------------------------------- C30 ----------------------------------- *)
\* the rows' frame numbers never decrease
NonDecreasingRows(df) == \A k \in 1..(Len(df) - 1) : df[k].frame <= df[k + 1].frame

\* the distinct frame numbers present in df
FramesPresent(df) == {df[k].frame : k \in 1..Len(df)}

\* the r-th smallest frame number present
FrameOfRank(df, r) ==
    CHOOSE f \in FramesPresent(df) :
        Cardinality({g \in FramesPresent(df) : g < f}) = r - 1

\* the positions of the rows with frame number f, and their (x, y) in row order
RowsOf(df, f) == {k \in 1..Len(df) : df[k].frame = f}

ObservationsOf(df, f) ==
    [j \in 1..Cardinality(RowsOf(df, f)) |->
        df[CHOOSE k \in RowsOf(df, f) :
               Cardinality({m \in RowsOf(df, f) : m < k}) = j - 1].xy]

\* one handle_frame_data call per distinct frame number, in increasing frame
\* order, with the observations of that frame, then one close
ExpectedCalls(df) ==
    [r \in 1..(Cardinality(FramesPresent(df)) + 1) |->
        IF r <= Cardinality(FramesPresent(df))
        THEN Call("handle_frame_data", FrameOfRank(df, r),
                  ObservationsOf(df, FrameOfRank(df, r)))
        ELSE Call("close", -1, <<>>)]

\* C30: for input rows whose frame numbers are non-decreasing, main calls
\* handle_frame_data exactly once for each distinct frame number present, in
\* strictly increasing frame order, passing exactly the observations of the
\* rows with that frame number in row order (including the last frame), and
\* calls close exactly once after the last handle_frame_data call.
C30_FrameGrouping ==
    NonDecreasingRows(main.df) =>
        /\ Len(inputs) <= Len(ExpectedCalls(main.df))
        /\ inputs = SubSeq(ExpectedCalls(main.df), 1, Len(inputs))
        /\ main.at = "done" =>
              /\ inputs = ExpectedCalls(main.df)
              /\ pc = "closed"

\* main finished a file with non-decreasing frames in which one frame has two
\* rows and a frame number is skipped
C30_Witness ==
    /\ main.at = "done"
    /\ NonDecreasingRows(main.df)
    /\ Len(inputs) = 3
    /\ \E k \in 1..Len(inputs) : Len(inputs[k].observations) = 2
    /\ \E k \in 1..(Len(main.df) - 1) : main.df[k + 1].frame > main.df[k].frame + 1

====
